---- MODULE Spec2Model ----
\* font-kit: the FamilyHandle container (family_handle.rs) and the stub
\* loader `Font` (loaders/web.rs), as state machines.
EXTENDS Integers, Sequences, FiniteSets, TLC

\* ---------------------------------------------------------------- bounds

MaxInitLen == 2         \* longest iterator handed to from_font_handles
MaxPush == 3            \* pushes per FamilyHandle
MaxFonts == 2           \* Font values ever constructed (ids 1..MaxFonts)
MaxGlyphId == 1         \* glyph ids 0..MaxGlyphId are tried
MaxTextChars == 1       \* characters per text handed to get_fallbacks
MaxIndex == 1           \* font_index values 0..MaxIndex are tried

\* ---------------------------------------------------------------- values

None == [tag |-> "None"]
Some(v) == [tag |-> "Some", val |-> v]
Ok(v) == [tag |-> "Ok", val |-> v]
Err(e) == [tag |-> "Err", err |-> e]

\* Handles a FamilyHandle may hold (opaque to the container).
Handles == {"regular", "bold"}

RECURSIVE SeqsUpTo(_, _)
SeqsUpTo(S, n) ==
    IF n = 0 THEN {<<>>}
    ELSE LET shorter == SeqsUpTo(S, n - 1)
         IN shorter \cup {Append(s, x) : s \in {t \in shorter : Len(t) = n - 1}, x \in S}

\* ---------------------------------------------------------------- state

VARIABLES
    famBuilt,       \* has the FamilyHandle been constructed
    family,         \* FamilyHandle.fonts
    famInitial,     \* history: the handles the constructor received
    famPushed,      \* history: the handles pushed, in call order
    famLast,        \* the last FamilyHandle query and its result
    fonts,          \* Font values by id: status, the struct, ancestry
    nextFont,       \* id of the next Font to be constructed
    arcs,           \* Arc<Vec<u8>> allocations by id: strong count and bytes
    faceFreed,      \* per face allocation: how often it was deallocated
    dropSnap,       \* history: query results of a Font right before its drop
    last,           \* the last loader call and its result
    build,          \* the build configuration: target_os, target_family, feature
    pcBuild,        \* how many items of sources/mod.rs the compiler has expanded
    defaults,       \* the modules re-exported as `default`, in file order
    mods            \* the modules declared

famVars == <<famBuilt, family, famInitial, famPushed, famLast>>
fontVars == <<fonts, nextFont, arcs, faceFreed, dropSnap, last>>
buildVars == <<build, pcBuild, defaults, mods>>
vars == <<famBuilt, family, famInitial, famPushed, famLast,
          fonts, nextFont, arcs, faceFreed, dropSnap, last,
          build, pcBuild, defaults, mods>>

\* ================================================================
\* family_handle.rs
\* ================================================================

new == <<>>

from_font_handles(it) == it

push_front(self, font) == <<font>> \o self

push(self, font) == Append(self, font)

is_empty_up_to_one(self) == Len(self) <= 1

is_empty(self) == Len(self) = 0

fonts_of(self) == self

FamNew ==
    /\ ~famBuilt
    /\ famBuilt' = TRUE
    /\ family' = new
    /\ famInitial' = <<>>
    /\ UNCHANGED <<famPushed, famLast>>

FamFromFontHandles ==
    /\ ~famBuilt
    /\ \E it \in SeqsUpTo(Handles, MaxInitLen) :
        /\ family' = from_font_handles(it)
        /\ famInitial' = it
    /\ famBuilt' = TRUE
    /\ UNCHANGED <<famPushed, famLast>>

FamPush ==
    /\ famBuilt
    /\ Len(famPushed) < MaxPush
    /\ \E h \in Handles :
        /\ family' = push(family, h)
        /\ famPushed' = Append(famPushed, h)
    /\ UNCHANGED <<famBuilt, famInitial, famLast>>

FamIsEmpty ==
    /\ famBuilt
    /\ famLast' = [op |-> "is_empty", result |-> is_empty(family)]
    /\ UNCHANGED <<famBuilt, family, famInitial, famPushed>>

FamFonts ==
    /\ famBuilt
    /\ famLast' = [op |-> "fonts", result |-> fonts_of(family)]
    /\ UNCHANGED <<famBuilt, family, famInitial, famPushed>>

FamInit ==
    /\ famBuilt = FALSE
    /\ family = <<>>
    /\ famInitial = <<>>
    /\ famPushed = <<>>
    /\ famLast = [op |-> "none", result |-> FALSE]

\* ================================================================
\* loaders/web.rs
\* ================================================================

PCF_FONT_PATH == "resources/tests/times-roman-pcf/timR12.pcf"
PCF_FONT_POSTSCRIPT_NAME == "Times-Roman"

Paths == {PCF_FONT_PATH, "missing.ttf"}
Indices == 0 .. MaxIndex
GlyphIds == 0 .. MaxGlyphId
FontIds == 1 .. MaxFonts

\* Byte blobs handed to from_bytes / analyze_bytes.
NonFontData == <<0, 1, 2>>
Blobs == {<<>>, NonFontData}

\* Native handles a caller may hand to from_native_font: FT_Face = Option<String>.
FaceNames == {"A", "B"}

\* A String allocation: `obj` is the allocation's identity, `name` its contents.
FaceAlloc(obj, name) == [obj |-> obj, name |-> name]

\* The value of a handle, as Option<String> equality sees it.
HandleValue(h) == IF h.tag = "Some" THEN Some(h.val.name) ELSE None

\* Texts: UTF-8 byte strings of up to MaxTextChars characters ("a", "e-acute", "euro").
Utf8Chars == {<<97>>, <<195, 169>>, <<226, 130, 172>>}

RECURSIVE Concat(_)
Concat(ss) == IF ss = <<>> THEN <<>> ELSE Head(ss) \o Concat(Tail(ss))

Texts == {Concat(cs) : cs \in SeqsUpTo(Utf8Chars, MaxTextChars)}
Locales == {"en", "ja"}

\* ---- Arc<Vec<u8>>

Dangling == <<-1>>

ArcNew(bytes) == [strong |-> 1, data |-> bytes]

ArcCloneNoCount(a) == a

ArcClone(a) == [a EXCEPT !.strong = @ + 1]

ArcDrop(a) ==
    IF a.strong > 1 THEN [a EXCEPT !.strong = @ - 1]
    ELSE [strong |-> 0, data |-> Dangling]

ArcDeref(a) == a.data

\* ---- struct Font and its constructors

NoFont == [freetype_face |-> None, font_data |-> 0]

from_bytes(font_data, font_index) == Err("NotImplemented")

from_path(path, font_index) == Err("NotImplemented")

from_native_font(freetype_face, buf) ==
    [freetype_face |-> freetype_face, font_data |-> buf]

analyze_bytes(font_data) == Err("NotImplemented")

\* ---- queries

native_font(self) == None

postscript_name(self) == Some("not implemented")

\* A count read from the glyph last loaded by outline / rasterize_glyph.
glyph_count_of_loaded_glyph(self) ==
    IF last.op \in {"outline", "rasterize_glyph"} THEN last.arg[1] + 1 ELSE 0

glyph_count(self) == 0

outline(self, glyph_id) == Ok("unit")

Vector2F_default == [x |-> 0, y |-> 0]

advance(self, glyph_id) == Ok(Vector2F_default)

Metrics_default ==
    [units_per_em |-> 0, ascent |-> 0, descent |-> 0, line_gap |-> 0,
     underline_position |-> 0, underline_thickness |-> 0,
     cap_height |-> 0, x_height |-> 0]

metrics(self) == Metrics_default

\* The canvas is not written: the body only warns and returns Ok(()).
rasterize_glyph(self, glyph_id) == Ok("unit")

copy_font_data(self, heap) ==
    Some([buf |-> self.font_data, bytes |-> ArcDeref(heap[self.font_data])])

\* str::chars().count(): the bytes that are not UTF-8 continuation bytes.
CharCount(text) == Cardinality({i \in 1 .. Len(text) : text[i] < 128 \/ text[i] >= 192})

get_fallbacks_char_count(self, text, locale) ==
    [fonts |-> <<>>, valid_len |-> CharCount(text)]

get_fallbacks(self, text, locale) == [fonts |-> <<>>, valid_len |-> Len(text)]

\* Option<String>::clone copies the String into a fresh allocation `obj`.
clone_face(face, obj) ==
    IF face.tag = "Some" THEN Some(FaceAlloc(obj, face.val.name)) ELSE None

clone(self, obj) ==
    [freetype_face |-> clone_face(self.freetype_face, obj),
     font_data |-> self.font_data]

\* The queries a caller can compare before and after a drop.
Queries(self, heap) ==
    [outline |-> outline(self, 0),
     metrics |-> metrics(self),
     glyph_count |-> glyph_count(self),
     postscript_name |-> postscript_name(self),
     copy_font_data |-> copy_font_data(self, heap)]

Live(f) == fonts[f].status = "live"
LiveFonts == {f \in FontIds : Live(f)}

NoSnap == [taken |-> FALSE]

\* ---- operations

FromBytes ==
    /\ \E data \in Blobs, index \in Indices :
        last' = [op |-> "from_bytes", font |-> 0, arg |-> <<data, index>>,
                 result |-> from_bytes(data, index)]
    /\ UNCHANGED <<fonts, nextFont, arcs, faceFreed, dropSnap>>

FromPath ==
    /\ \E path \in Paths, index \in Indices :
        last' = [op |-> "from_path", font |-> 0, arg |-> <<path, index>>,
                 result |-> from_path(path, index)]
    /\ UNCHANGED <<fonts, nextFont, arcs, faceFreed, dropSnap>>

AnalyzeBytes ==
    /\ \E data \in Blobs :
        last' = [op |-> "analyze_bytes", font |-> 0, arg |-> <<data>>,
                 result |-> analyze_bytes(data)]
    /\ UNCHANGED <<fonts, nextFont, arcs, faceFreed, dropSnap>>

FromNativeFont ==
    /\ nextFont <= MaxFonts
    /\ \E h \in {None} \cup {Some(n) : n \in FaceNames} :
        LET id == nextFont
            face == IF h.tag = "Some" THEN Some(FaceAlloc(id, h.val)) ELSE None
        IN /\ fonts' = [fonts EXCEPT ![id] =
                          [status |-> "live",
                           font |-> from_native_font(face, id),
                           cloneOf |-> 0]]
           /\ arcs' = [arcs EXCEPT ![id] = ArcNew(<<>>)]
           /\ last' = [op |-> "from_native_font", font |-> id, arg |-> <<h>>,
                       result |-> Ok(id)]
    /\ nextFont' = nextFont + 1
    /\ UNCHANGED <<faceFreed, dropSnap>>

Clone ==
    /\ nextFont <= MaxFonts
    /\ \E f \in LiveFonts :
        LET id == nextFont
            copy == clone(fonts[f].font, id)
        IN /\ fonts' = [fonts EXCEPT ![id] =
                          [status |-> "live", font |-> copy, cloneOf |-> f]]
           /\ arcs' = [arcs EXCEPT ![copy.font_data] = ArcClone(@)]
           /\ last' = [op |-> "clone", font |-> f, arg |-> <<>>, result |-> Ok(id)]
    /\ nextFont' = nextFont + 1
    /\ UNCHANGED <<faceFreed, dropSnap>>

\* drop(): the body is empty; the fields are then dropped in declaration order.
Drop ==
    /\ \E f \in LiveFonts :
        LET self == fonts[f].font
        IN /\ dropSnap' = [dropSnap EXCEPT ![f] =
                             [taken |-> TRUE, queries |-> Queries(self, arcs)]]
           /\ fonts' = [fonts EXCEPT ![f].status = "dropped"]
           /\ faceFreed' =
                IF self.freetype_face.tag = "Some"
                THEN [faceFreed EXCEPT ![self.freetype_face.val.obj] = @ + 1]
                ELSE faceFreed
           /\ arcs' = [arcs EXCEPT ![self.font_data] = ArcDrop(@)]
           /\ last' = [op |-> "drop", font |-> f, arg |-> <<>>, result |-> Ok(f)]
    /\ UNCHANGED nextFont

NativeFont ==
    /\ \E f \in LiveFonts :
        last' = [op |-> "native_font", font |-> f, arg |-> <<>>,
                 result |-> native_font(fonts[f].font)]
    /\ UNCHANGED <<fonts, nextFont, arcs, faceFreed, dropSnap>>

PostscriptName ==
    /\ \E f \in LiveFonts :
        last' = [op |-> "postscript_name", font |-> f, arg |-> <<>>,
                 result |-> postscript_name(fonts[f].font)]
    /\ UNCHANGED <<fonts, nextFont, arcs, faceFreed, dropSnap>>

GlyphCount ==
    /\ \E f \in LiveFonts :
        last' = [op |-> "glyph_count", font |-> f, arg |-> <<>>,
                 result |-> glyph_count(fonts[f].font)]
    /\ UNCHANGED <<fonts, nextFont, arcs, faceFreed, dropSnap>>

Outline ==
    /\ \E f \in LiveFonts, glyph_id \in GlyphIds :
        last' = [op |-> "outline", font |-> f, arg |-> <<glyph_id>>,
                 result |-> outline(fonts[f].font, glyph_id)]
    /\ UNCHANGED <<fonts, nextFont, arcs, faceFreed, dropSnap>>

RasterizeGlyph ==
    /\ \E f \in LiveFonts, glyph_id \in GlyphIds :
        last' = [op |-> "rasterize_glyph", font |-> f, arg |-> <<glyph_id>>,
                 result |-> rasterize_glyph(fonts[f].font, glyph_id)]
    /\ UNCHANGED <<fonts, nextFont, arcs, faceFreed, dropSnap>>

Advance ==
    /\ \E f \in LiveFonts, glyph_id \in GlyphIds :
        last' = [op |-> "advance", font |-> f, arg |-> <<glyph_id>>,
                 result |-> advance(fonts[f].font, glyph_id)]
    /\ UNCHANGED <<fonts, nextFont, arcs, faceFreed, dropSnap>>

MetricsOf ==
    /\ \E f \in LiveFonts :
        last' = [op |-> "metrics", font |-> f, arg |-> <<>>,
                 result |-> metrics(fonts[f].font)]
    /\ UNCHANGED <<fonts, nextFont, arcs, faceFreed, dropSnap>>

\* The returned Arc is a temporary of the caller: it is cloned and dropped again.
CopyFontData ==
    /\ \E f \in LiveFonts :
        last' = [op |-> "copy_font_data", font |-> f, arg |-> <<>>,
                 result |-> copy_font_data(fonts[f].font, arcs)]
    /\ UNCHANGED <<fonts, nextFont, arcs, faceFreed, dropSnap>>

\* copy_font_data() followed by from_bytes(data, index) on what it returned.
Reopen ==
    /\ \E f \in LiveFonts, index \in Indices :
        LET copied == copy_font_data(fonts[f].font, arcs)
        IN /\ copied.tag = "Some"
           /\ last' = [op |-> "reopen", font |-> f, arg |-> <<copied, index>>,
                       result |-> from_bytes(copied.val.bytes, index)]
    /\ UNCHANGED <<fonts, nextFont, arcs, faceFreed, dropSnap>>

GetFallbacks ==
    /\ \E f \in LiveFonts, text \in Texts, locale \in Locales :
        last' = [op |-> "get_fallbacks", font |-> f, arg |-> <<text, locale>>,
                 result |-> get_fallbacks(fonts[f].font, text, locale)]
    /\ UNCHANGED <<fonts, nextFont, arcs, faceFreed, dropSnap>>

FontInit ==
    /\ fonts = [f \in FontIds |-> [status |-> "unused", font |-> NoFont, cloneOf |-> 0]]
    /\ nextFont = 1
    /\ arcs = [b \in FontIds |-> [strong |-> 0, data |-> Dangling]]
    /\ faceFreed = [o \in FontIds |-> 0]
    /\ dropSnap = [f \in FontIds |-> NoSnap]
    /\ last = [op |-> "none", font |-> 0, arg |-> <<>>, result |-> None]

\* ================================================================
\* sources/mod.rs
\* ================================================================

\* The cfg values a target may carry; the file tests only "macos" and "windows".
TargetOs == {"macos", "windows", "linux", "android", "freebsd"}
TargetFamily == {"unix", "windows", "wasm"}

BuildConfigs ==
    [target_os : TargetOs, target_family : TargetFamily, source_fontconfig : BOOLEAN]

cfg_macos(b) == b.target_os = "macos"

cfg_windows(b) == b.target_family = "windows"

cfg_not_macos(b) == ~cfg_macos(b)

\* not(any(target_os = "macos", target_family = "windows"))
cfg_neither(b) == ~(cfg_macos(b) \/ cfg_windows(b))

\* any(not(any(..)), feature = "source-fontconfig")
cfg_fontconfig_mod(b) == cfg_neither(b) \/ b.source_fontconfig

\* An item under #[cfg(..)]: kept when the predicate holds, removed otherwise.
Expand(holds, module, into) == IF holds THEN Append(into, module) ELSE into
Declare(holds, module, into) == IF holds THEN into \cup {module} ELSE into

ChooseTarget ==
    /\ pcBuild = 0
    /\ build' \in BuildConfigs
    /\ pcBuild' = 1
    /\ UNCHANGED <<defaults, mods>>

UseCoreText ==
    /\ pcBuild = 1
    /\ defaults' = Expand(cfg_macos(build), "core_text", defaults)
    /\ pcBuild' = 2
    /\ UNCHANGED <<build, mods>>

UseDirectWrite ==
    /\ pcBuild = 2
    /\ defaults' = Expand(cfg_windows(build), "directwrite", defaults)
    /\ pcBuild' = 3
    /\ UNCHANGED <<build, mods>>

UseFontconfig ==
    /\ pcBuild = 3
    /\ defaults' = Expand(cfg_neither(build), "fontconfig", defaults)
    /\ pcBuild' = 4
    /\ UNCHANGED <<build, mods>>

ModCoreText ==
    /\ pcBuild = 4
    /\ mods' = Declare(cfg_macos(build), "core_text", mods)
    /\ pcBuild' = 5
    /\ UNCHANGED <<build, defaults>>

ModDirectWrite ==
    /\ pcBuild = 5
    /\ mods' = Declare(cfg_windows(build), "directwrite", mods)
    /\ pcBuild' = 6
    /\ UNCHANGED <<build, defaults>>

ModFontconfig ==
    /\ pcBuild = 6
    /\ mods' = Declare(cfg_fontconfig_mod(build), "fontconfig", mods)
    /\ pcBuild' = 7
    /\ UNCHANGED <<build, defaults>>

BuildDone == pcBuild = 7

BuildInit ==
    /\ build = [target_os |-> "unset", target_family |-> "unset",
                source_fontconfig |-> FALSE]
    /\ pcBuild = 0
    /\ defaults = <<>>
    /\ mods = {}

\* ================================================================
\* specifications
\* ================================================================

Init == FamInit /\ FontInit /\ BuildInit

FamNext ==
    \/ FamNew /\ UNCHANGED <<fontVars, buildVars>>
    \/ FamFromFontHandles /\ UNCHANGED <<fontVars, buildVars>>
    \/ FamPush /\ UNCHANGED <<fontVars, buildVars>>
    \/ FamIsEmpty /\ UNCHANGED <<fontVars, buildVars>>
    \/ FamFonts /\ UNCHANGED <<fontVars, buildVars>>

Next ==
    \/ FromBytes /\ UNCHANGED <<famVars, buildVars>>
    \/ FromPath /\ UNCHANGED <<famVars, buildVars>>
    \/ AnalyzeBytes /\ UNCHANGED <<famVars, buildVars>>
    \/ FromNativeFont /\ UNCHANGED <<famVars, buildVars>>
    \/ Clone /\ UNCHANGED <<famVars, buildVars>>
    \/ Drop /\ UNCHANGED <<famVars, buildVars>>
    \/ NativeFont /\ UNCHANGED <<famVars, buildVars>>
    \/ PostscriptName /\ UNCHANGED <<famVars, buildVars>>
    \/ GlyphCount /\ UNCHANGED <<famVars, buildVars>>
    \/ Outline /\ UNCHANGED <<famVars, buildVars>>
    \/ RasterizeGlyph /\ UNCHANGED <<famVars, buildVars>>
    \/ Advance /\ UNCHANGED <<famVars, buildVars>>
    \/ MetricsOf /\ UNCHANGED <<famVars, buildVars>>
    \/ CopyFontData /\ UNCHANGED <<famVars, buildVars>>
    \/ Reopen /\ UNCHANGED <<famVars, buildVars>>
    \/ GetFallbacks /\ UNCHANGED <<famVars, buildVars>>

BuildNext ==
    \/ ChooseTarget /\ UNCHANGED <<famVars, fontVars>>
    \/ UseCoreText /\ UNCHANGED <<famVars, fontVars>>
    \/ UseDirectWrite /\ UNCHANGED <<famVars, fontVars>>
    \/ UseFontconfig /\ UNCHANGED <<famVars, fontVars>>
    \/ ModCoreText /\ UNCHANGED <<famVars, fontVars>>
    \/ ModDirectWrite /\ UNCHANGED <<famVars, fontVars>>
    \/ ModFontconfig /\ UNCHANGED <<famVars, fontVars>>

\* The loader
Spec == Init /\ [][Next]_vars

\* The FamilyHandle container
SpecFamily == Init /\ [][FamNext]_vars

\* The conditional compilation of sources/mod.rs
SpecBuild == Init /\ [][BuildNext]_vars

\* ================================================================
\* properties
\* ================================================================

\* C1: fonts() is exactly the constructor's handles followed by the pushed
\* handles in push order, and no step ever shortens or reorders it.
C1_InsertionOrder ==
    /\ [](famBuilt => fonts_of(family) = famInitial \o famPushed)
    /\ [][/\ Len(fonts_of(family')) >= Len(fonts_of(family))
          /\ SubSeq(fonts_of(family'), 1, Len(fonts_of(family))) = fonts_of(family)]_vars

C1_Witness ==
    /\ famBuilt
    /\ Len(famInitial) = 2
    /\ Len(famPushed) >= 2
    /\ famPushed[1] # famPushed[2]
    /\ Len(family) = Len(famInitial) + Len(famPushed)

\* C2: from_path on the PCF fixture with index 0 succeeds and the Font's
\* postscript_name() is "Times-Roman".
C2_FromPathLoadsFixture ==
    (last.op = "from_path" /\ last.arg = <<PCF_FONT_PATH, 0>>) =>
        /\ last.result.tag = "Ok"
        /\ postscript_name(last.result.val) = Some(PCF_FONT_POSTSCRIPT_NAME)

\* C3: advance(glyph_id) is Ok for glyph_id < glyph_count() and the
\* glyph-range GlyphLoadingError for glyph_id >= glyph_count().
C3_AdvanceRange ==
    last.op = "advance" =>
        LET n == glyph_count(fonts[last.font].font)
            glyph_id == last.arg[1]
        IN /\ glyph_id < n => last.result.tag = "Ok"
           /\ glyph_id >= n => last.result = Err("NoSuchGlyph")

\* C4: a clone refers to the very face its original refers to (one more
\* reference, no copy), and a face is released once, when and only when the
\* last Font referring to it has been dropped.
FaceObjOf(f) == fonts[f].font.freetype_face.val.obj
HasFace(f) == fonts[f].status # "unused" /\ fonts[f].font.freetype_face.tag = "Some"

C4_ReleasedExactlyOnce ==
    /\ \A f \in FontIds :
        (HasFace(f) /\ fonts[f].cloneOf # 0) => FaceObjOf(f) = FaceObjOf(fonts[f].cloneOf)
    /\ \A o \in FontIds :
        (\E f \in FontIds : HasFace(f) /\ FaceObjOf(f) = o) =>
            faceFreed[o] = IF \E f \in LiveFonts : HasFace(f) /\ FaceObjOf(f) = o
                           THEN 0 ELSE 1

\* C5: a live clone whose original has been dropped answers every query as
\* the original did right before its drop, and its font data is the
\* original's buffer, still allocated.
C5_CloneSurvivesDrop ==
    \A f \in LiveFonts :
        LET g == fonts[f].cloneOf
        IN (g # 0 /\ fonts[g].status = "dropped") =>
            /\ dropSnap[g].taken
            /\ Queries(fonts[f].font, arcs) = dropSnap[g].queries
            /\ fonts[f].font.font_data = fonts[g].font.font_data
            /\ arcs[fonts[f].font.font_data].strong >= 1
            /\ ArcDeref(arcs[fonts[f].font.font_data]) # Dangling

C5_Witness ==
    \E f \in LiveFonts :
        /\ fonts[f].cloneOf # 0
        /\ fonts[fonts[f].cloneOf].status = "dropped"
        /\ last.op = "copy_font_data"
        /\ last.font = f

\* C6: from_bytes on the data copy_font_data() returned succeeds and gives a
\* Font with the same postscript_name(), glyph_count() and metrics().
C6_CopyRoundTrips ==
    (last.op = "reopen" /\ last.arg[1].tag = "Some") =>
        /\ last.result.tag = "Ok"
        /\ postscript_name(last.result.val) = postscript_name(fonts[last.font].font)
        /\ glyph_count(last.result.val) = glyph_count(fonts[last.font].font)
        /\ metrics(last.result.val) = metrics(fonts[last.font].font)

\* C7: copy_font_data() on a Font made by from_native_font is None.
C7_NativeFontHasNoData ==
    (last.op = "copy_font_data" /\ fonts[last.font].cloneOf = 0) =>
        last.result.tag = "None"

\* C8: native_font() on a Font, or on a clone of it, is the handle that
\* from_native_font wrapped.
C8_NativeFontRoundTrip ==
    last.op = "native_font" =>
        HandleValue(last.result) = HandleValue(fonts[last.font].font.freetype_face)

\* C9: get_fallbacks reports no fallback fonts and the whole text as valid:
\* the valid prefix is the text itself, valid_len its byte length.
C9_FallbacksCoverAll ==
    last.op = "get_fallbacks" =>
        LET text == last.arg[1]
        IN /\ last.result.fonts = <<>>
           /\ last.result.valid_len = Len(text)
           /\ SubSeq(text, 1, last.result.valid_len) = text

C9_Witness ==
    /\ last.op = "get_fallbacks"
    /\ Len(last.arg[1]) = 3
    /\ last.arg[2] = "ja"

\* C10: analyze_bytes on data that is no font is the "unrecognized format"
\* FontLoadingError.
C10_AnalyzeUnrecognized ==
    (last.op = "analyze_bytes" /\ last.arg[1] = NonFontData) =>
        last.result = Err("UnknownFormat")

\* C11: no operation changes what glyph_count() returns on a Font that stays
\* alive, a call returns the Font's current value, and a clone's value is its
\* original's.
C11_GlyphCountStable ==
    /\ [][\A f \in FontIds :
            (Live(f) /\ Live(f)') =>
                glyph_count(fonts[f].font)' = glyph_count(fonts[f].font)]_vars
    /\ []((last.op = "glyph_count" /\ Live(last.font)) =>
            last.result = glyph_count(fonts[last.font].font))
    /\ [](\A f \in FontIds :
            (fonts[f].status # "unused" /\ fonts[f].cloneOf # 0) =>
                glyph_count(fonts[f].font) = glyph_count(fonts[fonts[f].cloneOf].font))

C11_Witness ==
    /\ last.op = "glyph_count"
    /\ Live(last.font)
    /\ fonts[last.font].cloneOf # 0
    /\ fonts[fonts[last.font].cloneOf].status = "dropped"
    /\ last.result = dropSnap[fonts[last.font].cloneOf].queries.glyph_count

\* C12: is_empty() answers true exactly when fonts() has length 0; a handle
\* built by new() and not pushed to is empty, and a handle that was pushed to
\* is not.
C12_EmptyIffNoFonts ==
    /\ [][FamIsEmpty => (famLast'.result <=> Len(fonts_of(family)) = 0)]_vars
    /\ [](famBuilt =>
            /\ (famInitial = <<>> /\ famPushed = <<>>) => is_empty(family)
            /\ (famInitial # <<>> \/ famPushed # <<>>) => ~is_empty(family))

C12_Witness ==
    /\ famBuilt
    /\ famInitial = <<>>
    /\ Len(famPushed) = 1
    /\ famLast.op = "is_empty"
    /\ famLast.result = FALSE

\* C13 as stated: in every build configuration, macos together with the
\* windows family included, exactly one module is re-exported as `default`
\* and that module is declared.
C13_ExactlyOneDefault ==
    BuildDone =>
        /\ Len(defaults) = 1
        /\ \A i \in 1 .. Len(defaults) : defaults[i] \in mods

\* C13, amended: in every build configuration in which target_os = "macos"
\* and target_family = "windows" do not both hold, exactly one module is
\* re-exported as `default` and that module is declared.
C13_ExactlyOneDefaultPerTarget ==
    (BuildDone /\ ~(cfg_macos(build) /\ cfg_windows(build))) =>
        /\ Len(defaults) = 1
        /\ defaults[1] \in mods
        /\ defaults[1] \in {"core_text", "directwrite", "fontconfig"}

C13_Witness ==
    /\ BuildDone
    /\ build.target_family = "windows"
    /\ build.target_os = "windows"
    /\ build.source_fontconfig
    /\ defaults = <<"directwrite">>
    /\ mods = {"directwrite", "fontconfig"}

====
